---- MODULE Spec2Model ----
(***************************************************************************)
(* Model of src/jobblixor.py: the /submit request handler (profile save,   *)
(* job discovery, apply loop) and apply_to_job, run by two request         *)
(* handlers for one user document of the Firestore "users" collection.     *)
(***************************************************************************)
EXTENDS Integers, Sequences, FiniteSets, TLC

\* ------------------------------------------------------------------ bounds
\* Longest job list fetch_jobs returns (its limit argument) when one handler
\* runs alone, and when two handlers run interleaved.
MaxJobs == 3
MaxConcJobs == 1
\* Largest free_uses_left / application_count of a document that exists
\* before the first request.
MaxInitFree == 2
MaxInitCount == 1

\* ------------------------------------------------------- program constants
\* free_uses_left of a user created by the program
DefaultFreeUses == 5

Procs == {1, 2}

\* ------------------------------------------------------------------- URLs
\* A URL is a sequence of tokens; `x in url` on Python strings is modelled
\* as token containment.
EmptyLink == << >>
NALink == <<"N/A">>
GreenhouseLink == <<"http", "://", "boards.", "greenhouse.io", "/apply">>
OtherLink == <<"http", "://", "jobs.", "example.com", "/apply">>
FtpLink == <<"ftp", "://", "example.com", "/", "http", ".pdf">>

Links == {EmptyLink, NALink, GreenhouseLink, OtherLink, FtpLink}

Contains(url, tok) == \E i \in 1..Len(url) : url[i] = tok

\* line 171: not url or "http" not in url
InvalidLink(url) == url = << >> \/ ~Contains(url, "http")

\* the URL has an http scheme (what a browser can navigate to)
HasHttpScheme(url) == Len(url) >= 2 /\ url[1] = "http" /\ url[2] = "://"

\* page.url after page.goto(url) returned; a URL without an http scheme is
\* one the browser cannot navigate to
Resolves(url) == IF HasHttpScheme(url) THEN {url} ELSE {}

\* line 183: "greenhouse.io" in domain
IsGreenhouse(domain) == Contains(domain, "greenhouse.io")

NoPage == <<"about:blank">>

\* ------------------------------------------------------------- documents
NoDoc == [exists |-> FALSE, free_uses_left |-> 0, application_count |-> 0]

Doc(f, c) == [exists |-> TRUE, free_uses_left |-> f, application_count |-> c]

Max(a, b) == IF a >= b THEN a ELSE b

\* the comparison of line 166 written with < for <=
DeniedStrict(c) == c.free_uses_left < 0

\* line 166: counts.get("free_uses_left", 0) <= 0
Denied(c) == c.free_uses_left <= 0

\* lines 193-196: the two counters doc_ref.update writes, from the snapshot
NewCounters(c) ==
  Doc(Max(0, c.free_uses_left - 1), c.application_count + 1)

\* the browser started without the `with` block: an exception leaves it open
PlaywrightLeak(n) == n

\* line 174: leaving the `with sync_playwright()` block stops the driver,
\* which closes every browser it launched
PlaywrightStop(n) == 0

\* ----------------------------------------------------------------- status
Success == "Success (screenshot taken)"
SkippedInvalidLink == "Skipped (invalid link)"
\* line 200: f"Failed ({e})"
Failed(e) == "Failed (" \o e \o ")"
FailedStatuses ==
  {Failed(e) : e \in {"NavigationError", "ScreenshotError",
                      "FormFieldMissing", "SubmitTimeout", "PersistenceError",
                      "NameError"}}
NoStatus == "none"

VARIABLES
  store,     \* the user's document in Firestore
  pc,        \* position of each request handler
  old_data,  \* submit: doc read at line 274
  job_results, \* submit: the links of the postings fetch_jobs returned
  idx,       \* submit: position of the for loop of line 319
  logs,      \* submit: logs
  resp,      \* submit: what the request ended with
  counts,    \* apply_to_job: doc read at line 163
  page,      \* apply_to_job: page.url
  status,    \* apply_to_job: returned value
  sessions,  \* browsers launched by the handler and not closed
  batch0,    \* history: the document when the handler's apply loop started
  opened,    \* history: browsers launched by the current apply_to_job call
  trail      \* history: the steps the current apply_to_job call has done

vars == <<store, pc, old_data, job_results, idx, logs, resp, counts, page,
          status, sessions, batch0, opened, trail>>

submitVars == <<old_data, job_results, idx, logs, resp, batch0>>
applyVars == <<counts, page, status, sessions, opened, trail>>

InitDocs ==
  {NoDoc} \cup {Doc(f, c) : f \in 0..MaxInitFree, c \in 0..MaxInitCount}

Init ==
  /\ store \in InitDocs
  /\ pc = [p \in Procs |-> "idle"]
  /\ old_data = [p \in Procs |-> NoDoc]
  /\ job_results = [p \in Procs |-> << >>]
  /\ idx = [p \in Procs |-> 1]
  /\ logs = [p \in Procs |-> << >>]
  /\ resp = [p \in Procs |-> "none"]
  /\ counts = [p \in Procs |-> NoDoc]
  /\ page = [p \in Procs |-> NoPage]
  /\ status = [p \in Procs |-> NoStatus]
  /\ sessions = [p \in Procs |-> 0]
  /\ batch0 = [p \in Procs |-> NoDoc]
  /\ opened = [p \in Procs |-> 0]
  /\ trail = [p \in Procs |-> << >>]

\* ---------------------------------------------------------------- submit
\* lines 231-251: a request arrives; missing or mismatched credentials end it
\* with a 400
SubmitValidate(p) ==
  /\ pc[p] = "idle"
  /\ \E valid \in BOOLEAN :
       IF valid
       THEN pc' = [pc EXCEPT ![p] = "read"] /\ UNCHANGED resp
       ELSE /\ pc' = [pc EXCEPT ![p] = "done"]
            /\ resp' = [resp EXCEPT ![p] = "error 400"]
  /\ UNCHANGED <<store, old_data, job_results, idx, logs, batch0>>
  /\ UNCHANGED applyVars

\* lines 273-274: doc = doc_ref.get()
SubmitReadDoc(p) ==
  /\ pc[p] = "read"
  /\ old_data' = [old_data EXCEPT ![p] = store]
  /\ pc' = [pc EXCEPT ![p] = "save"]
  /\ UNCHANGED <<store, job_results, idx, logs, resp, batch0>>
  /\ UNCHANGED applyVars

\* lines 291-312: an existing user's counters are written back from old_data;
\* a new user's document is set with the defaults
SubmitSave(p) ==
  /\ pc[p] = "save"
  /\ store' = IF old_data[p].exists
              THEN Doc(old_data[p].free_uses_left, old_data[p].application_count)
              ELSE Doc(DefaultFreeUses, 0)
  /\ old_data' = [old_data EXCEPT ![p] = NoDoc]
  /\ pc' = [pc EXCEPT ![p] = "fetch"]
  /\ UNCHANGED <<job_results, idx, logs, resp, batch0>>
  /\ UNCHANGED applyVars

\* lines 96-124, save_user_data (the command-line entry, main): the update of
\* an existing user's document leaves the counters alone; a new user's
\* document is set with the defaults
SaveUserData(p) ==
  /\ pc[p] = "save"
  /\ store' = IF old_data[p].exists THEN store ELSE Doc(DefaultFreeUses, 0)
  /\ old_data' = [old_data EXCEPT ![p] = NoDoc]
  /\ pc' = [pc EXCEPT ![p] = "fetch"]
  /\ UNCHANGED <<job_results, idx, logs, resp, batch0>>
  /\ UNCHANGED applyVars

JobLists(limit) == UNION {[1..n -> Links] : n \in 0..limit}

\* lines 316-317: job_results = fetch_jobs(...); logs = []
FetchJobs(p, limit) ==
  /\ pc[p] = "fetch"
  /\ \E js \in JobLists(limit) : job_results' = [job_results EXCEPT ![p] = js]
  /\ idx' = [idx EXCEPT ![p] = 1]
  /\ logs' = [logs EXCEPT ![p] = << >>]
  /\ batch0' = [batch0 EXCEPT ![p] = store]
  /\ pc' = [pc EXCEPT ![p] = "loop"]
  /\ UNCHANGED <<store, old_data, resp>>
  /\ UNCHANGED applyVars

\* line 324: the loop is over
SubmitReturn(p) ==
  /\ pc[p] = "loop"
  /\ idx[p] > Len(job_results[p])
  /\ resp' = [resp EXCEPT ![p] = "success"]
  /\ pc' = [pc EXCEPT ![p] = "done"]
  /\ UNCHANGED <<store, old_data, job_results, idx, logs, batch0>>
  /\ UNCHANGED applyVars

\* the entry put in front of the log instead of appended
SubmitAppendFront(p) ==
  /\ pc[p] = "ret"
  /\ logs' = [logs EXCEPT ![p] = <<[link |-> job_results[p][idx[p]],
                                    status |-> status[p]]>> \o @]
  /\ idx' = [idx EXCEPT ![p] = @ + 1]
  /\ counts' = [counts EXCEPT ![p] = NoDoc]
  /\ page' = [page EXCEPT ![p] = NoPage]
  /\ status' = [status EXCEPT ![p] = NoStatus]
  /\ opened' = [opened EXCEPT ![p] = 0]
  /\ trail' = [trail EXCEPT ![p] = << >>]
  /\ pc' = [pc EXCEPT ![p] = "loop"]
  /\ UNCHANGED <<store, old_data, job_results, resp, sessions, batch0>>

\* lines 321-322: status = apply_to_job(...); logs.append(...)
SubmitAppend(p) ==
  /\ pc[p] = "ret"
  /\ logs' = [logs EXCEPT ![p] = Append(@, [link |-> job_results[p][idx[p]],
                                            status |-> status[p]])]
  /\ idx' = [idx EXCEPT ![p] = @ + 1]
  /\ counts' = [counts EXCEPT ![p] = NoDoc]
  /\ page' = [page EXCEPT ![p] = NoPage]
  /\ status' = [status EXCEPT ![p] = NoStatus]
  /\ opened' = [opened EXCEPT ![p] = 0]
  /\ trail' = [trail EXCEPT ![p] = << >>]
  /\ pc' = [pc EXCEPT ![p] = "loop"]
  /\ UNCHANGED <<store, old_data, job_results, resp, sessions, batch0>>

\* ----------------------------------------------------------- apply_to_job
Job(p) == job_results[p][idx[p]]

\* history: the call has done these steps
Did(p, steps) == trail' = [trail EXCEPT ![p] = @ \o steps]

\* lines 199-200: an exception raised in the try block leaves the `with`
\* block (when inside it) and becomes the returned value
Raised(p, e) ==
  /\ status' = [status EXCEPT ![p] = Failed(e)]
  /\ UNCHANGED trail
  /\ sessions' = [sessions EXCEPT ![p] = PlaywrightStop(@)]
  /\ pc' = [pc EXCEPT ![p] = "ret"]

\* the counters written when the unit is reserved, before the form is
\* submitted, instead of after it
ApplyReserveEager(p) ==
  /\ pc[p] = "loop"
  /\ idx[p] <= Len(job_results[p])
  /\ counts' = [counts EXCEPT ![p] = store]
  /\ IF store.exists /\ Denied(store)
     THEN /\ pc' = [pc EXCEPT ![p] = "exited"]
          /\ resp' = [resp EXCEPT ![p] = "SystemExit"]
          /\ UNCHANGED store
     ELSE /\ pc' = [pc EXCEPT ![p] = "link"]
          /\ store' = NewCounters(store)
          /\ UNCHANGED resp
  /\ trail' = [trail EXCEPT ![p] =
                 IF store.exists /\ Denied(store) THEN @ ELSE <<"reserve">>]
  /\ UNCHANGED <<old_data, job_results, idx, logs, batch0>>
  /\ UNCHANGED <<page, status, sessions, opened>>

\* lines 161-168: read the document; out of free uses => exit(), a
\* SystemExit, which `except Exception` does not catch and which leaves
\* submit's loop too
ApplyReserve(p) ==
  /\ pc[p] = "loop"
  /\ idx[p] <= Len(job_results[p])
  /\ counts' = [counts EXCEPT ![p] = store]
  /\ IF store.exists /\ Denied(store)
     THEN /\ pc' = [pc EXCEPT ![p] = "exited"]
          /\ resp' = [resp EXCEPT ![p] = "SystemExit"]
          /\ UNCHANGED trail
     ELSE /\ pc' = [pc EXCEPT ![p] = "link"]
          /\ trail' = [trail EXCEPT ![p] = <<"reserve">>]
          /\ UNCHANGED resp
  /\ UNCHANGED <<store, old_data, job_results, idx, logs, batch0>>
  /\ UNCHANGED <<page, status, sessions, opened>>

\* lines 170-172
ApplyCheckLink(p) ==
  /\ pc[p] = "link"
  /\ IF InvalidLink(Job(p))
     THEN /\ status' = [status EXCEPT ![p] = SkippedInvalidLink]
          /\ pc' = [pc EXCEPT ![p] = "ret"]
     ELSE /\ pc' = [pc EXCEPT ![p] = "launch"]
          /\ UNCHANGED status
  /\ UNCHANGED store
  /\ UNCHANGED submitVars
  /\ UNCHANGED <<counts, page, sessions, opened, trail>>

\* lines 174-176: start playwright, launch the browser, open a page
ApplyLaunch(p) ==
  /\ pc[p] = "launch"
  /\ sessions' = [sessions EXCEPT ![p] = @ + 1]
  /\ opened' = [opened EXCEPT ![p] = @ + 1]
  /\ pc' = [pc EXCEPT ![p] = "goto"]
  /\ UNCHANGED store
  /\ UNCHANGED submitVars
  /\ UNCHANGED <<counts, page, status, trail>>

\* line 177: page.goto(url, timeout=60000)
ApplyGoto(p) ==
  /\ pc[p] = "goto"
  /\ \E r \in Resolves(Job(p)) \cup {NoPage} :
       IF r # NoPage
       THEN /\ page' = [page EXCEPT ![p] = r]
            /\ pc' = [pc EXCEPT ![p] = "shot"]
            /\ Did(p, <<"navigate">>)
            /\ UNCHANGED <<status, sessions>>
       ELSE Raised(p, "NavigationError") /\ UNCHANGED page
  /\ UNCHANGED store
  /\ UNCHANGED submitVars
  /\ UNCHANGED <<counts, opened>>

\* lines 179-181: domain = page.url; page.screenshot(...)
ApplyScreenshot(p) ==
  /\ pc[p] = "shot"
  /\ \E ok \in BOOLEAN :
       IF ok
       THEN /\ pc' = [pc EXCEPT ![p] = "fill"]
            /\ Did(p, <<"capture">>)
            /\ UNCHANGED <<status, sessions>>
       ELSE Raised(p, "ScreenshotError")
  /\ UNCHANGED store
  /\ UNCHANGED submitVars
  /\ UNCHANGED <<counts, page, opened>>

\* lines 183-188: the form is filled only on a greenhouse.io page
ApplyFill(p) ==
  /\ pc[p] = "fill"
  /\ IF IsGreenhouse(page[p])
     THEN \E ok \in BOOLEAN :
            IF ok
            THEN /\ pc' = [pc EXCEPT ![p] = "click"]
                 /\ Did(p, <<"identify", "fill">>)
                 /\ UNCHANGED <<status, sessions>>
            ELSE Raised(p, "FormFieldMissing")
     ELSE /\ pc' = [pc EXCEPT ![p] = "close"]
          /\ Did(p, <<"identify">>)
          /\ UNCHANGED <<status, sessions>>
  /\ UNCHANGED store
  /\ UNCHANGED submitVars
  /\ UNCHANGED <<counts, page, opened>>

\* line 189: page.click("button[type='submit']")
ApplyClick(p) ==
  /\ pc[p] = "click"
  /\ \E ok \in BOOLEAN :
       IF ok
       THEN /\ pc' = [pc EXCEPT ![p] = "close"]
            /\ Did(p, <<"submit">>)
            /\ UNCHANGED <<status, sessions>>
       ELSE Raised(p, "SubmitTimeout")
  /\ UNCHANGED store
  /\ UNCHANGED submitVars
  /\ UNCHANGED <<counts, page, opened>>

\* line 191: browser.close()
ApplyClose(p) ==
  /\ pc[p] = "close"
  /\ sessions' = [sessions EXCEPT ![p] = @ - 1]
  /\ pc' = [pc EXCEPT ![p] = "commit"]
  /\ UNCHANGED store
  /\ UNCHANGED submitVars
  /\ UNCHANGED <<counts, page, status, opened, trail>>

\* the update written as a decrement of the stored value, without the floor
ApplyCommitDecrement(p) ==
  /\ pc[p] = "commit"
  /\ \E ok \in BOOLEAN :
       IF ok
       THEN /\ store' = Doc(store.free_uses_left - 1, store.application_count + 1)
            /\ Did(p, <<"commit">>)
            /\ status' = [status EXCEPT ![p] = Success]
            /\ sessions' = [sessions EXCEPT ![p] = PlaywrightStop(@)]
            /\ pc' = [pc EXCEPT ![p] = "ret"]
       ELSE Raised(p, "PersistenceError") /\ UNCHANGED store
  /\ UNCHANGED submitVars
  /\ UNCHANGED <<counts, page, opened>>

\* a failed update swallowed: the posting is still returned as a Success
ApplyCommitSwallow(p) ==
  /\ pc[p] = "commit"
  /\ \E ok \in BOOLEAN :
       /\ store' = IF ok THEN NewCounters(counts[p]) ELSE store
       /\ Did(p, IF ok THEN <<"commit">> ELSE << >>)
       /\ status' = [status EXCEPT ![p] = Success]
       /\ sessions' = [sessions EXCEPT ![p] = PlaywrightStop(@)]
       /\ pc' = [pc EXCEPT ![p] = "ret"]
  /\ UNCHANGED submitVars
  /\ UNCHANGED <<counts, page, opened>>

\* lines 193-198: doc_ref.update of the two counters from the snapshot read
\* at line 163, then return "Success (screenshot taken)"
ApplyCommit(p) ==
  /\ pc[p] = "commit"
  /\ IF ~counts[p].exists
     THEN Raised(p, "NameError") /\ UNCHANGED store
     ELSE \E ok \in BOOLEAN :
            IF ok
            THEN /\ store' = NewCounters(counts[p])
                 /\ Did(p, <<"commit">>)
                 /\ status' = [status EXCEPT ![p] = Success]
                 /\ sessions' = [sessions EXCEPT ![p] = PlaywrightStop(@)]
                 /\ pc' = [pc EXCEPT ![p] = "ret"]
            ELSE Raised(p, "PersistenceError") /\ UNCHANGED store
  /\ UNCHANGED submitVars
  /\ UNCHANGED <<counts, page, opened>>

\* the handler is free for the next request
NextRequest(p) ==
  /\ pc[p] \in {"done", "exited"}
  /\ pc' = [pc EXCEPT ![p] = "idle"]
  /\ old_data' = [old_data EXCEPT ![p] = NoDoc]
  /\ job_results' = [job_results EXCEPT ![p] = << >>]
  /\ idx' = [idx EXCEPT ![p] = 1]
  /\ logs' = [logs EXCEPT ![p] = << >>]
  /\ resp' = [resp EXCEPT ![p] = "none"]
  /\ batch0' = [batch0 EXCEPT ![p] = NoDoc]
  /\ counts' = [counts EXCEPT ![p] = NoDoc]
  /\ UNCHANGED <<store, page, status, sessions, opened, trail>>

Step(p, limit) ==
  \/ SubmitValidate(p)
  \/ SubmitReadDoc(p)
  \/ SubmitSave(p)
  \/ SaveUserData(p)
  \/ FetchJobs(p, limit)
  \/ SubmitReturn(p)
  \/ SubmitAppend(p)
  \/ ApplyReserve(p)
  \/ ApplyCheckLink(p)
  \/ ApplyLaunch(p)
  \/ ApplyGoto(p)
  \/ ApplyScreenshot(p)
  \/ ApplyFill(p)
  \/ ApplyClick(p)
  \/ ApplyClose(p)
  \/ ApplyCommit(p)
  \/ NextRequest(p)

Next == \E p \in Procs : Step(p, MaxConcJobs)

\* two request handlers of the same user, interleaved
Spec == Init /\ [][Next]_vars

\* one handler: no other writer to the user's document
NextSeq == Step(1, MaxJobs)

SpecSeq == Init /\ [][NextSeq]_vars

\* lines 273-274, 302: the user has no document yet; the first save creates it
InitNew == Init /\ store = NoDoc

\* two request handlers of a user this program creates
SpecNew == InitNew /\ [][Next]_vars

\* ------------------------------------------------------------- properties
NumSuccess(log) == Cardinality({i \in 1..Len(log) : log[i].status = Success})

\* the handler's apply loop has ended: returned its log, or left by SystemExit
BatchEnded(p) == resp[p] \in {"success", "SystemExit"}

\* outcomes the specification names and the program never returns
SkippedQuotaExhausted == "Skipped (quota exhausted)"
SkippedUnsupportedSite == "Skipped (unsupported site)"

\* C1: one handler alone: between postings and after the batch,
\* application_count is its value at the start of the batch plus the number
\* of Success entries of the log, and free_uses_left is max(0, its value at
\* the start minus that number).
C1_BatchCounters ==
  (pc[1] = "loop" \/ BatchEnded(1)) =>
    /\ store.application_count =
         batch0[1].application_count + NumSuccess(logs[1])
    /\ store.free_uses_left =
         Max(0, batch0[1].free_uses_left - NumSuccess(logs[1]))

C1_Witness ==
  /\ resp[1] = "success"
  /\ NumSuccess(logs[1]) = 2
  /\ Len(logs[1]) = 3
  /\ store.free_uses_left = 0

\* C2: a batch that starts with free_uses_left = 0 returns a log in which
\* every posting is Skipped(QuotaExhausted); the batch is not aborted.
C2_AllSkippedQuotaExhausted ==
  (BatchEnded(1) /\ batch0[1].free_uses_left = 0) =>
    /\ resp[1] = "success"
    /\ Len(logs[1]) = Len(job_results[1])
    /\ \A i \in 1..Len(logs[1]) : logs[1][i].status = SkippedQuotaExhausted

\* C3: an execution whose page, after navigation, is not a greenhouse.io
\* page is never returned as a Success, and has written no counter.
C3_UnsupportedNeverSuccess ==
  (pc[1] = "ret" /\ page[1] # NoPage /\ ~IsGreenhouse(page[1])) =>
    /\ status[1] # Success
    /\ store = counts[1]

\* C4: an execution for a posting whose link is empty or has no http scheme
\* ends with Skipped(InvalidLink), whatever free_uses_left is.
C4_InvalidLinkSkipped ==
  (pc[1] \in {"ret", "exited"} /\ ~HasHttpScheme(Job(1))) =>
    (pc[1] = "ret" /\ status[1] = SkippedInvalidLink)

\* C5: interleaved executions never over-spend the quota: an execution
\* returns Success only for a unit that is still in the stored free_uses_left
\* when it writes (its reservation and its write see one snapshot), so the
\* Successes never outnumber the free uses the user had.
C5_NoOverspend ==
  [][\A p \in Procs :
       (pc[p] = "commit" /\ pc'[p] = "ret" /\ status'[p] = Success) =>
         store.free_uses_left >= 1]_vars

\* C6: a batch that has ended has returned status success with exactly one
\* log entry per posting.
C6_BatchNeverAborted ==
  BatchEnded(1) => (resp[1] = "success" /\ Len(logs[1]) = Len(job_results[1]))

\* C7: the stored free_uses_left is never negative.
C7_FreeUsesNonNegative == store.free_uses_left >= 0

C7_Witness ==
  /\ store.free_uses_left = 0
  /\ store.application_count > 0
  /\ \E p \in Procs : pc[p] = "ret" /\ status[p] = Success

\* C8: one handler alone: when an execution returns Failed or Skipped, both
\* stored counters are what they were when the execution read the document.
C8_FailedSkippedNoWrite ==
  (pc[1] = "ret" /\ status[1] \in FailedStatuses \cup {SkippedInvalidLink}) =>
    /\ store.free_uses_left = counts[1].free_uses_left
    /\ store.application_count = counts[1].application_count

C8_Witness ==
  /\ pc[1] = "ret"
  /\ status[1] = Failed("FormFieldMissing")
  /\ NumSuccess(logs[1]) = 1

\* C9: a handler never has more than one browser open, and none once the
\* execution has returned its outcome (or before it launched one).
C9_SessionClosed ==
  \A p \in Procs :
    /\ sessions[p] <= 1
    /\ pc[p] \notin {"goto", "shot", "fill", "click", "close"} => sessions[p] = 0

C9_Witness ==
  /\ pc[1] = "ret"
  /\ status[1] = Failed("SubmitTimeout")
  /\ opened[1] = 1
  /\ sessions[1] = 0

\* C10: an execution whose snapshot has free_uses_left <= 0 launches no
\* browser.
C10_DeniedNoSession ==
  \A p \in Procs :
    (counts[p].exists /\ counts[p].free_uses_left <= 0) =>
      (opened[p] = 0 /\ sessions[p] = 0)

C10_Witness ==
  /\ pc[1] = "exited"
  /\ Len(logs[1]) = 1
  /\ counts[1].free_uses_left = 0
  /\ opened[1] = 0

\* C11: the log is in the order of the postings: it has one entry for each
\* posting already run, the k-th entry names the k-th posting, and its
\* outcome is one that posting's link can end with.
C11_LogOrder ==
  \A p \in Procs :
    /\ Len(logs[p]) = idx[p] - 1
    /\ Len(logs[p]) <= Len(job_results[p])
    /\ \A k \in 1..Len(logs[p]) :
         /\ logs[p][k].link = job_results[p][k]
         /\ (logs[p][k].status = SkippedInvalidLink) <=>
              InvalidLink(job_results[p][k])
         /\ logs[p][k].status \in
              {Failed("FormFieldMissing"), Failed("SubmitTimeout")} =>
                IsGreenhouse(job_results[p][k])

C11_Witness ==
  /\ resp[1] = "success"
  /\ job_results[1] = <<GreenhouseLink, EmptyLink, OtherLink>>
  /\ logs[1][1].status = Failed("SubmitTimeout")
  /\ logs[1][2].status = SkippedInvalidLink
  /\ logs[1][3].status = Success

InTrail(p, step) == \E i \in 1..Len(trail[p]) : trail[p][i] = step

\* C12: when the form was submitted and the counter write fails (the
\* execution leaves the update without having changed the document), the
\* posting is still returned as submitted, not as Failed.
C12_SubmittedDespiteFailedWrite ==
  [][\A p \in Procs :
       (pc[p] = "commit" /\ pc'[p] = "ret" /\ store' = store
          /\ InTrail(p, "submit")) =>
         status'[p] \notin FailedStatuses]_vars

\* C13: a failed screenshot does not end the execution: whatever the
\* capture does, the execution goes on to the form with no outcome set yet.
C13_CaptureFailureNonFatal ==
  [][\A p \in Procs :
       (pc[p] = "shot" /\ pc'[p] # "shot") =>
         (pc'[p] = "fill" /\ status'[p] = NoStatus)]_vars

\* C14: a batch that starts with free_uses_left = 2 on the postings
\* [greenhouse page, invalid link, greenhouse page], and in which nothing
\* fails, returns the log [Success, Skipped (invalid link), Success] and
\* leaves free_uses_left = 0 and application_count grown by 2.
C14_EndToEnd ==
  ( /\ BatchEnded(1)
    /\ batch0[1].free_uses_left = 2
    /\ Len(job_results[1]) = 3
    /\ IsGreenhouse(job_results[1][1])
    /\ InvalidLink(job_results[1][2])
    /\ IsGreenhouse(job_results[1][3])
    /\ \A k \in 1..Len(logs[1]) : logs[1][k].status \notin FailedStatuses ) =>
    /\ resp[1] = "success"
    /\ [k \in 1..Len(logs[1]) |-> logs[1][k].status] =
         <<Success, SkippedInvalidLink, Success>>
    /\ store.free_uses_left = 0
    /\ store.application_count = batch0[1].application_count + 2

C14_Witness ==
  /\ resp[1] = "success"
  /\ batch0[1] = Doc(2, 1)
  /\ job_results[1] = <<GreenhouseLink, NALink, GreenhouseLink>>
  /\ NumSuccess(logs[1]) = 2
  /\ store = Doc(0, 3)

\* C15: no counter update is lost under interleaving: every execution that
\* returns Success adds exactly 1 to the stored application_count, so the
\* count ends at its initial value plus the number of Success outcomes.
C15_NoLostUpdate ==
  [][\A p \in Procs :
       (pc[p] = "commit" /\ pc'[p] = "ret" /\ status'[p] = Success) =>
         store'.application_count = store.application_count + 1]_vars

\* C16: one handler alone: when an execution has returned Success, its
\* counter write is done: the commit is on its trail and the document holds
\* both counters updated from the execution's snapshot.
C16_SuccessAfterWrite ==
  (pc[1] = "ret" /\ status[1] = Success) =>
    /\ InTrail(1, "commit")
    /\ trail[1][Len(trail[1])] = "commit"
    /\ store = NewCounters(counts[1])

C16_Witness ==
  /\ pc[1] = "ret"
  /\ status[1] = Success
  /\ IsGreenhouse(page[1])
  /\ store = Doc(4, 1)

\* C17: an execution on a greenhouse page that returns Success has done its
\* steps in the order reserve, navigate, identify adapter, fill, submit,
\* capture evidence, commit.
C17_StepOrder ==
  (pc[1] = "ret" /\ status[1] = Success /\ IsGreenhouse(page[1])) =>
    trail[1] = <<"reserve", "navigate", "identify", "fill", "submit",
                 "capture", "commit">>

\* C18: for a user this program created, free_uses_left + application_count
\* is 5 in every reachable state under any interleaving of apply executions
\* and profile saves, and every counter write comes from a snapshot with
\* free_uses_left >= 1, so the floor of max(0, ...) never takes effect.
C18_CountersSumToFive ==
  /\ store.exists =>
       store.free_uses_left + store.application_count = DefaultFreeUses
  /\ \A p \in Procs :
       pc[p] = "commit" =>
         /\ counts[p].free_uses_left >= 1
         /\ Max(0, counts[p].free_uses_left - 1) = counts[p].free_uses_left - 1

C18_Witness ==
  /\ store = Doc(0, DefaultFreeUses)
  /\ pc[1] = "ret"
  /\ status[1] = Success
  /\ InTrail(1, "commit")

\* C19: the profile save of /submit for an existing user leaves both quota
\* counters as they were immediately before its write, also when another
\* request's apply execution committed after the step read the document.
C19_SavePreservesCounters ==
  [][\A p \in Procs :
       (pc[p] = "save" /\ pc'[p] = "fetch" /\ old_data[p].exists) =>
         /\ store'.free_uses_left = store.free_uses_left
         /\ store'.application_count = store.application_count]_vars

====
